---- MODULE Spec2Model ----
(***************************************************************************)
(* A model of termbox (api.go): the double-buffered cell grid and its      *)
(* diff renderer, the cursor operations, the input reader goroutine with   *)
(* its buffer hand-back over input_comm, PollEvent and the two SIGWINCH    *)
(* slots.                                                                  *)
(*                                                                         *)
(* api.go is the only file of the package at hand.  The helpers it calls   *)
(* (cellbuf.init/clear/resize, update_size, send_attr, send_char, flush,   *)
(* is_cursor_hidden, extract_event, get_term_size) and the declarations of *)
(* the package variables are modelled from the design document and are     *)
(* marked so where they are defined.                                       *)
(***************************************************************************)
EXTENDS Integers, Sequences, FiniteSets, TLC

VARIABLES
    tty,            \* the terminal: [w, h] geometry answered by get_term_size
    termw, termh,   \* api.go:210
    back_buffer,    \* cellbuf: [width, height, cells]
    front_buffer,
    foreground, background,   \* clear attributes, api.go:407
    cursor_x, cursor_y,       \* api.go:284
    lastx, lasty,             \* api.go:245-246
    lastfg, lastbg,           \* last attribute pair emitted by send_attr
    outbuf,         \* bytes buffered for the terminal, as a sequence of tokens
    written,        \* what the last write to the terminal device carried
    sigwinch_draw,  \* capacity-1 signal channels: TRUE = one signal pending
    sigwinch_input,
    panicked,       \* TRUE once a Go run-time panic (index out of range) happened
    in_open,        \* the terminal device is open: between Init and Shutdown
    readers,        \* the goroutines started by Init (api.go:216-223), in order:
                    \*   [pc, buf, data, session]
    inbuf,          \* the pending input bytes of the decoder
    input_mode,     \* api.go:400
    poll,           \* the activation of PollEvent: [pc, event, data, buf, received]
    nsessions,      \* history: number of Init calls
    nbytes,         \* history: number of bytes the keyboard has sent
    ndone,          \* history: number of terminal reads that returned
    call,           \* history: the last operation that ran, with its arguments
    nops,           \* history: number of steps taken (bounds the render runs)
    nsig,           \* history: SIGWINCHs since each slot was last taken, and the
                    \*   number the last consumer found: [draw, input, took]
    rdlog           \* history: the bytes the terminal reads returned, in the
                    \*   order of the reads, the bytes PollEvent received, in
                    \*   the order of the receipts, and the number of bytes
                    \*   that returned events consumed: [bytes, recv, eaten]

gridVars == <<termw, termh, back_buffer, front_buffer>>
attrVars == <<foreground, background>>
curVars  == <<cursor_x, cursor_y>>
emitVars == <<lastx, lasty, lastfg, lastbg, outbuf, written>>
sigVars  == <<sigwinch_draw, sigwinch_input>>
inVars   == <<in_open, readers, inbuf, input_mode, poll, nsessions, nbytes, ndone>>

\* the history variables that only the runs made for them advance
auxVars  == <<nsig, rdlog>>

vars == <<tty, gridVars, attrVars, curVars, emitVars, sigVars, panicked, inVars,
          call, nops, auxVars>>

----------------------------------------------------------------------------
(* Bounds of the model *)

\* a terminal has at most MaxCells cells (every w x h with w*h <= MaxCells)
MaxCells == 4
\* the longest cells slice handed to Blit
MaxBlitLen == 4
\* the number of steps of a render run
MaxOps == 4
\* the number of Init calls of a run (sessions)
MaxSessions == 2
\* the number of bytes the keyboard sends in a run
MaxBytes == 2
\* the number of terminal reads that return in a run
MaxReads == 2

TermSizes == { s \in (1..MaxCells) \X (1..MaxCells) : s[1] * s[2] <= MaxCells }

----------------------------------------------------------------------------
(* Program constants, api.go:120-135 *)

ColorBlack == 0
ColorRed == 1
ColorWhite == 7
ColorDefault == 8

\* sentinels of the missing part of the package
cursor_hidden == -1
coord_invalid == -2
attr_invalid  == 65535

Cell(ch, fg, bg) == [Ch |-> ch, Fg |-> fg, Bg |-> bg]

\* the cells the callers of the model write: 'A' and 'B' red on black, and
\* 'A' white on black
CellA == Cell(65, ColorRed, ColorBlack)
CellB == Cell(66, ColorRed, ColorBlack)
CellW == Cell(65, ColorWhite, ColorBlack)

----------------------------------------------------------------------------
(* cellbuf, modelled from the design document (section 4.1) *)

cellbuf_init(w, h) ==
    [width |-> w, height |-> h, cells |-> [i \in 1..(w * h) |-> Cell(0, 0, 0)]]

cellbuf_clear(b, fg, bg) ==
    [b EXCEPT !.cells = [i \in 1..Len(b.cells) |-> Cell(32, fg, bg)]]

\* resize reallocates and clears, no content is migrated
cellbuf_resize(b, w, h, fg, bg) == cellbuf_clear(cellbuf_init(w, h), fg, bg)

\* update_size resizing the back grid only
update_size_backonly(t, fg, bg) ==
    [termw |-> t.w, termh |-> t.h,
     back  |-> cellbuf_resize(back_buffer, t.w, t.h, fg, bg),
     front |-> front_buffer]

\* update_size: query the geometry and resize both grids
update_size(t, fg, bg) ==
    [termw |-> t.w, termh |-> t.h,
     back  |-> cellbuf_resize(back_buffer, t.w, t.h, fg, bg),
     front |-> cellbuf_resize(front_buffer, t.w, t.h, fg, bg)]

----------------------------------------------------------------------------
(* The escape emitter.  Output is a sequence of tokens:                    *)
(*   attr(fg,bg)  move(row,col) (1-based)  char(ch)  show  hide            *)

Tok(t, a, b) == [t |-> t, a |-> a, b |-> b]

is_cursor_hidden(x, y) == x = cursor_hidden /\ y = cursor_hidden

\* e is the emitter state [front, lastfg, lastbg, lastx, lasty, outbuf]
send_attr(fg, bg, e) ==
    IF fg # e.lastfg \/ bg # e.lastbg
    THEN [e EXCEPT !.outbuf = Append(@, Tok("attr", fg, bg)),
                   !.lastfg = fg, !.lastbg = bg]
    ELSE e

send_char(x, y, ch, e) ==
    [e EXCEPT !.outbuf = @ \o <<Tok("move", y + 1, x + 1), Tok("char", ch, 0)>>,
              !.lastx = x, !.lasty = y]

----------------------------------------------------------------------------
(* Events and the input side *)

\* api.go:138-148
InputEsc == 1
InputAlt == 2
EventKey == 0
EventResize == 1
\* api.go:58, 96, 114
KeyArrowUp == 65517
KeyEsc == 27
ModAlt == 1

Event(type, mod, key, ch, w, h) ==
    [Type |-> type, Mod |-> mod, Key |-> key, Ch |-> ch, Width |-> w, Height |-> h]

\* var event Event, api.go:347
ZeroEvent == Event(0, 0, 0, 0, 0, 0)

\* a reader goroutine at its first in.Read, with the buffer it made (line 217)
NewReader(b, sess) == [pc |-> "read", buf |-> b, data |-> <<>>, session |-> sess]

\* no PollEvent call in progress
PollIdle == [pc |-> "idle", event |-> ZeroEvent, data |-> <<>>, buf |-> 0, received |-> 0]

\* the one caller of the package is not inside PollEvent, and nothing panicked
CallerReady == ~panicked /\ poll.pc = "idle"

----------------------------------------------------------------------------
(* The state after Init() returned, api.go:159-226 *)

\* buf is what the decoder holds pending and mode the input mode
InitWith(buf, mode) ==
    /\ tty \in { [w |-> s[1], h |-> s[2]] : s \in TermSizes }
    /\ termw = tty.w
    /\ termh = tty.h
    /\ foreground = ColorDefault
    /\ background = ColorDefault
    /\ back_buffer = cellbuf_clear(cellbuf_init(tty.w, tty.h), foreground, background)
    /\ front_buffer = cellbuf_clear(cellbuf_init(tty.w, tty.h), foreground, background)
    /\ cursor_x = cursor_hidden
    /\ cursor_y = cursor_hidden
    /\ lastx = coord_invalid
    /\ lasty = coord_invalid
    /\ lastfg = attr_invalid
    /\ lastbg = attr_invalid
    /\ outbuf = <<>>
    /\ written = <<>>
    /\ sigwinch_draw = FALSE
    /\ sigwinch_input = FALSE
    /\ panicked = FALSE
    /\ in_open = TRUE
    /\ readers = <<NewReader(1, 1)>>
    /\ inbuf = buf
    /\ input_mode = mode
    /\ poll = PollIdle
    /\ nsessions = 1
    /\ nbytes = 0
    /\ ndone = 0
    /\ call = [op |-> "Init"]
    /\ nops = 0
    /\ nsig = [draw |-> 0, input |-> 0, took |-> 0]
    /\ rdlog = [bytes |-> <<>>, recv |-> <<>>, eaten |-> 0]

Init == InitWith(<<>>, InputEsc)

----------------------------------------------------------------------------
(* What the history variable call records of the arguments of a grid write: *)
(* whether the position lies in the grid b, whether the w x h rectangle at  *)
(* (x, y) lies in it.  The arguments themselves are kept when it does.      *)

InRange(b, x, y) == 0 <= x /\ x < b.width /\ 0 <= y /\ y < b.height

Fits(b, x, y, w, h) == 0 <= x /\ 0 <= y /\ x + w <= b.width /\ y + h <= b.height

----------------------------------------------------------------------------
(* PutCell, api.go:296-305 *)

\* PutCell with the bound on x off by one
PutCell_cells_offbyone(b, x, y, cell) ==
    IF x < 0 \/ x > b.width THEN b.cells
    ELSE IF y < 0 \/ y >= b.height THEN b.cells
    ELSE [b.cells EXCEPT ![y * b.width + x + 1] = cell]

PutCell_cells(b, x, y, cell) ==
    IF x < 0 \/ x >= b.width THEN b.cells
    ELSE IF y < 0 \/ y >= b.height THEN b.cells
    ELSE [b.cells EXCEPT ![y * b.width + x + 1] = cell]

\* index out of range in the assignment of line 304
PutCell_panics(b, x, y) ==
    /\ ~(x < 0 \/ x >= b.width)
    /\ ~(y < 0 \/ y >= b.height)
    /\ y * b.width + x + 1 \notin 1..Len(b.cells)

PutCellAs(name, x, y, cell) ==
    /\ CallerReady
    /\ panicked' = PutCell_panics(back_buffer, x, y)
    /\ back_buffer' = IF panicked' THEN back_buffer
                      ELSE [back_buffer EXCEPT !.cells = PutCell_cells(back_buffer, x, y, cell)]
    /\ call' = IF InRange(back_buffer, x, y)
               THEN [op |-> name, inrange |-> TRUE, x |-> x, y |-> y, cell |-> cell]
               ELSE [op |-> name, inrange |-> FALSE]
    /\ UNCHANGED <<inVars, tty, termw, termh, front_buffer, attrVars, curVars, emitVars, sigVars>>

PutCell(x, y, cell) == PutCellAs("PutCell", x, y, cell)

\* ChangeCell, api.go:309-312
ChangeCell(x, y, ch, fg, bg) == PutCellAs("ChangeCell", x, y, Cell(ch, fg, bg))

----------------------------------------------------------------------------
(* Blit, api.go:323-343 *)

\* copy(dst[dsti:dsti+w], src[srci:srci+w]), line 339
copy(dst, dsti, src, srci, w) ==
    [k \in 1..Len(dst) |->
        IF k - 1 >= dsti /\ k - 1 < dsti + w THEN src[srci + (k - 1 - dsti) + 1]
        ELSE dst[k]]

\* a slice expression of line 339 is out of range
copy_panics(dst, dsti, src, srci, w) ==
    dsti + w > Len(dst) \/ srci + w > Len(src)

\* the loop advancing the destination by the width of the source rectangle
RECURSIVE Blit_rows_srcstride(_, _, _, _, _, _, _, _)
Blit_rows_srcstride(dst, src, dsti, srci, w, width, i, h) ==
    IF i >= h THEN <<dst, FALSE>>
    ELSE IF copy_panics(dst, dsti, src, srci, w) THEN <<dst, TRUE>>
    ELSE Blit_rows_srcstride(copy(dst, dsti, src, srci, w), src,
                             dsti + w, srci + w, w, width, i + 1, h)

\* the loop of lines 338-342; the result is <<the cells, panicked>>
RECURSIVE Blit_rows(_, _, _, _, _, _, _, _)
Blit_rows(dst, src, dsti, srci, w, width, i, h) ==
    IF i >= h THEN <<dst, FALSE>>
    ELSE IF copy_panics(dst, dsti, src, srci, w) THEN <<dst, TRUE>>
    ELSE Blit_rows(copy(dst, dsti, src, srci, w), src,
                   dsti + width, srci + w, w, width, i + 1, h)

\* Blit clipping at the right edge instead of discarding
Blit_cells_clipped(b, x, y, w, cells) ==
    LET h == Len(cells) \div w
    IN  IF x >= b.width \/ x < 0 THEN <<b.cells, FALSE>>
        ELSE IF y + h > b.height \/ y < 0 THEN <<b.cells, FALSE>>
        ELSE Blit_rows(b.cells, cells, y * b.width + x, 0, w, b.width, 0, h)

\* the whole of Blit on the back buffer b: <<the cells afterwards, panicked>>
Blit_cells(b, x, y, w, cells) ==
    LET h == Len(cells) \div w
    IN  IF x + w > b.width \/ x < 0 THEN <<b.cells, FALSE>>
        ELSE IF y + h > b.height \/ y < 0 THEN <<b.cells, FALSE>>
        ELSE Blit_rows(b.cells, cells, y * b.width + x, 0, w, b.width, 0, h)

Blit(x, y, w, cells) ==
    /\ CallerReady
    /\ w > 0
    /\ LET r == Blit_cells(back_buffer, x, y, w, cells)
       IN  /\ back_buffer' = [back_buffer EXCEPT !.cells = r[1]]
           /\ panicked' = r[2]
    /\ call' = IF Fits(back_buffer, x, y, w, Len(cells) \div w)
               THEN [op |-> "Blit", fits |-> TRUE,
                     x |-> x, y |-> y, w |-> w, cells |-> cells]
               ELSE [op |-> "Blit", fits |-> FALSE]
    /\ UNCHANGED <<inVars, tty, termw, termh, front_buffer, attrVars, curVars, emitVars, sigVars>>

----------------------------------------------------------------------------
(* Clear, api.go:379-386 *)

\* Clear without the select of lines 380-384
Clear_noselect ==
    /\ CallerReady
    /\ back_buffer' = cellbuf_clear(back_buffer, foreground, background)
    /\ call' = [op |-> "Clear", resized |-> FALSE]
    /\ UNCHANGED <<inVars, tty, attrVars, curVars, emitVars, sigVars, panicked,
                   termw, termh, front_buffer>>

Clear ==
    /\ CallerReady
    /\ LET u == IF sigwinch_draw THEN update_size(tty, foreground, background)
                ELSE [termw |-> termw, termh |-> termh,
                      back |-> back_buffer, front |-> front_buffer]
       IN  /\ termw' = u.termw
           /\ termh' = u.termh
           /\ back_buffer' = cellbuf_clear(u.back, foreground, background)
           /\ front_buffer' = u.front
    /\ sigwinch_draw' = FALSE
    /\ call' = [op |-> "Clear", resized |-> sigwinch_draw]
    /\ UNCHANGED <<inVars, tty, attrVars, curVars, emitVars, sigwinch_input, panicked>>

\* SetClearAttributes, api.go:406-408
SetClearAttributes(fg, bg) ==
    /\ CallerReady
    /\ foreground' = fg
    /\ background' = bg
    /\ call' = [op |-> "SetClearAttributes"]
    /\ UNCHANGED <<inVars, tty, gridVars, curVars, emitVars, sigVars, panicked>>

----------------------------------------------------------------------------
(* The terminal is resized: the kernel raises SIGWINCH, and signal.Notify  *)
(* (api.go:180-181) puts it in each channel that has room.                 *)

\* the notifier with room in the slots only: it waits while a slot is full
Sigwinch_blocks(w, h) ==
    /\ ~panicked
    /\ ~sigwinch_draw
    /\ ~sigwinch_input
    /\ tty' = [w |-> w, h |-> h]
    /\ sigwinch_draw' = TRUE
    /\ sigwinch_input' = TRUE
    /\ call' = [op |-> "SIGWINCH"]
    /\ UNCHANGED <<inVars, gridVars, attrVars, curVars, emitVars, panicked>>

Sigwinch(w, h) ==
    /\ ~panicked
    /\ tty' = [w |-> w, h |-> h]
    /\ sigwinch_draw' = TRUE
    /\ sigwinch_input' = TRUE
    /\ call' = [op |-> "SIGWINCH"]
    /\ UNCHANGED <<inVars, gridVars, attrVars, curVars, emitVars, panicked>>

----------------------------------------------------------------------------
(* Present, api.go:243-272 *)

\* the loops without the assignment of line 265
RECURSIVE Present_scan_nosync(_, _, _, _, _, _)
Present_scan_nosync(y, x, width, height, back, st) ==
    IF y >= height THEN st
    ELSE IF x >= width THEN Present_scan_nosync(y + 1, 0, width, height, back, st)
    ELSE LET cell_offset == y * width + x
             b == back[cell_offset + 1]
         IN  IF b = st.front[cell_offset + 1]
             THEN Present_scan_nosync(y, x + 1, width, height, back, st)
             ELSE Present_scan_nosync(y, x + 1, width, height, back,
                      send_char(x, y, b.Ch, send_attr(b.Fg, b.Bg, st)))

\* the loops of lines 254-267 from (x, y) on; st is the emitter state with the
\* front cells: [front, lastfg, lastbg, lastx, lasty, outbuf]
RECURSIVE Present_scan(_, _, _, _, _, _)
Present_scan(y, x, width, height, back, st) ==
    IF y >= height THEN st
    ELSE IF x >= width THEN Present_scan(y + 1, 0, width, height, back, st)
    ELSE LET cell_offset == y * width + x
             b == back[cell_offset + 1]
         IN  IF b = st.front[cell_offset + 1]
             THEN Present_scan(y, x + 1, width, height, back, st)
             ELSE Present_scan(y, x + 1, width, height, back,
                      [send_char(x, y, b.Ch, send_attr(b.Fg, b.Bg, st))
                          EXCEPT !.front[cell_offset + 1] = b])

\* lines 268-270
Present_cursor(out, cx, cy) ==
    IF ~is_cursor_hidden(cx, cy) THEN Append(out, Tok("move", cy + 1, cx + 1))
    ELSE out

\* Present scanning the grids as they are and taking the resize afterwards
Present_stale ==
    /\ CallerReady
    /\ LET st == Present_scan(0, 0, front_buffer.width, front_buffer.height,
                     back_buffer.cells,
                     [front |-> front_buffer.cells, lastfg |-> lastfg, lastbg |-> lastbg,
                      lastx |-> coord_invalid, lasty |-> coord_invalid,
                      outbuf |-> outbuf])
           u == IF sigwinch_draw THEN update_size(tty, foreground, background)
                ELSE [termw |-> termw, termh |-> termh,
                      back |-> back_buffer,
                      front |-> [front_buffer EXCEPT !.cells = st.front]]
       IN  /\ termw' = u.termw
           /\ termh' = u.termh
           /\ back_buffer' = u.back
           /\ front_buffer' = u.front
           /\ lastfg' = st.lastfg
           /\ lastbg' = st.lastbg
           /\ lastx' = st.lastx
           /\ lasty' = st.lasty
           /\ written' = Present_cursor(st.outbuf, cursor_x, cursor_y)
           /\ outbuf' = <<>>
    /\ sigwinch_draw' = FALSE
    /\ call' = [op |-> "Present", resized |-> sigwinch_draw, pending |-> Len(outbuf),
                again |-> call.op = "Present"]
    /\ UNCHANGED <<inVars, tty, attrVars, curVars, sigwinch_input, panicked>>

Present ==
    /\ CallerReady
    /\ LET u == IF sigwinch_draw THEN update_size(tty, foreground, background)
                ELSE [termw |-> termw, termh |-> termh,
                      back |-> back_buffer, front |-> front_buffer]
           st == Present_scan(0, 0, u.front.width, u.front.height, u.back.cells,
                     [front |-> u.front.cells, lastfg |-> lastfg, lastbg |-> lastbg,
                      lastx |-> coord_invalid, lasty |-> coord_invalid,
                      outbuf |-> outbuf])
       IN  /\ termw' = u.termw
           /\ termh' = u.termh
           /\ back_buffer' = u.back
           /\ front_buffer' = [u.front EXCEPT !.cells = st.front]
           /\ lastfg' = st.lastfg
           /\ lastbg' = st.lastbg
           /\ lastx' = st.lastx
           /\ lasty' = st.lasty
           \* flush(): one write of everything buffered
           /\ written' = Present_cursor(st.outbuf, cursor_x, cursor_y)
           /\ outbuf' = <<>>
    /\ sigwinch_draw' = FALSE
    /\ call' = [op |-> "Present", resized |-> sigwinch_draw, pending |-> Len(outbuf),
                again |-> call.op = "Present"]
    /\ UNCHANGED <<inVars, tty, attrVars, curVars, sigwinch_input, panicked>>

----------------------------------------------------------------------------
(* SetCursor and HideCursor, api.go:275-293 *)

\* SetCursor showing the cursor whenever the new position is visible
SetCursor_out_alwaysshow(cx, cy, x, y) ==
    (IF ~is_cursor_hidden(x, y)
     THEN <<Tok("show", 0, 0)>> ELSE <<>>)
    \o (IF ~is_cursor_hidden(cx, cy) /\ is_cursor_hidden(x, y)
        THEN <<Tok("hide", 0, 0)>> ELSE <<>>)
    \o (IF ~is_cursor_hidden(x, y)
        THEN <<Tok("move", y + 1, y + 1)>> ELSE <<>>)

\* what SetCursor appends to outbuf when the cursor moves from (cx, cy) to (x, y)
SetCursor_out(cx, cy, x, y) ==
    (IF is_cursor_hidden(cx, cy) /\ ~is_cursor_hidden(x, y)
     THEN <<Tok("show", 0, 0)>> ELSE <<>>)
    \o (IF ~is_cursor_hidden(cx, cy) /\ is_cursor_hidden(x, y)
        THEN <<Tok("hide", 0, 0)>> ELSE <<>>)
    \o (IF ~is_cursor_hidden(x, y)
        THEN <<Tok("move", y + 1, y + 1)>> ELSE <<>>)

SetCursorAs(name, x, y) ==
    /\ CallerReady
    /\ outbuf' = outbuf \o SetCursor_out(cursor_x, cursor_y, x, y)
    /\ cursor_x' = x
    /\ cursor_y' = y
    /\ call' = [op |-> name, x |-> x, y |-> y,
                washidden |-> is_cursor_hidden(cursor_x, cursor_y),
                pending |-> Len(outbuf)]
    /\ UNCHANGED <<inVars, tty, gridVars, attrVars, lastx, lasty, lastfg, lastbg, written,
                   sigVars, panicked>>

SetCursor(x, y) == SetCursorAs("SetCursor", x, y)

HideCursor == SetCursorAs("HideCursor", cursor_hidden, cursor_hidden)

----------------------------------------------------------------------------
(* The event decoder, modelled from the design document (section 4.7).     *)
(* Decode answers [ok, n, mod, key, ch]: an event and the n bytes it       *)
(* consumes, or no event yet.                                              *)

\* the table of known input escape sequences: ESC [ A is the up arrow
KnownSeqs == { [seq |-> <<27, 91, 65>>, key |-> KeyArrowUp] }

NoEvent == [ok |-> FALSE, n |-> 0, mod |-> 0, key |-> 0, ch |-> 0]

IsPrefix(a, b) == Len(a) <= Len(b) /\ SubSeq(b, 1, Len(a)) = a

\* the length of the character a lead byte announces
Utf8Need(b0) ==
    IF b0 < 128 THEN 1
    ELSE IF b0 >= 192 /\ b0 < 224 THEN 2
    ELSE IF b0 >= 224 /\ b0 < 240 THEN 3
    ELSE IF b0 >= 240 /\ b0 < 248 THEN 4
    ELSE 1

RECURSIVE Utf8Cont(_, _, _, _)
Utf8Cont(buf, i, need, acc) ==
    IF i > need THEN acc ELSE Utf8Cont(buf, i + 1, need, acc * 64 + (buf[i] % 64))

Utf8Rune(buf) ==
    LET need == Utf8Need(buf[1])
        lead == IF need = 1 THEN buf[1]
                ELSE IF need = 2 THEN buf[1] % 32
                ELSE IF need = 3 THEN buf[1] % 16
                ELSE buf[1] % 8
    IN  Utf8Cont(buf, 2, need, lead)

\* rule 2: the first byte is not the escape byte
DecodePlain(buf, mod) ==
    IF buf[1] <= 31 \/ buf[1] = 32 \/ buf[1] = 127
    THEN [ok |-> TRUE, n |-> 1, mod |-> mod, key |-> buf[1], ch |-> 0]
    ELSE IF Len(buf) < Utf8Need(buf[1]) THEN NoEvent
    ELSE [ok |-> TRUE, n |-> Utf8Need(buf[1]), mod |-> mod, key |-> 0,
          ch |-> Utf8Rune(buf)]

RECURSIVE Decode(_, _, _)
Decode(buf, mode, mod) ==
    IF buf = <<>> THEN NoEvent
    ELSE IF buf[1] # 27 THEN DecodePlain(buf, mod)
    ELSE LET matches == {k \in KnownSeqs : IsPrefix(k.seq, buf)}
             best == CHOOSE k \in matches : \A o \in matches : Len(o.seq) <= Len(k.seq)
         IN  IF matches # {}
             THEN [ok |-> TRUE, n |-> Len(best.seq), mod |-> mod, key |-> best.key,
                   ch |-> 0]
             ELSE IF \E k \in KnownSeqs : IsPrefix(buf, k.seq) THEN NoEvent
             ELSE IF mode = InputEsc
             THEN [ok |-> TRUE, n |-> 1, mod |-> mod, key |-> KeyEsc, ch |-> 0]
             ELSE LET r == Decode(Tail(buf), mode, ModAlt)
                  IN  IF r.ok THEN [r EXCEPT !.n = @ + 1] ELSE NoEvent

\* extract_event(&event): [ok, event, inbuf]
extract_event(event, buf, mode) ==
    LET d == Decode(buf, mode, 0)
    IN  IF d.ok
        THEN [ok |-> TRUE,
              event |-> [event EXCEPT !.Mod = d.mod, !.Key = d.key, !.Ch = d.ch],
              inbuf |-> SubSeq(buf, d.n + 1, Len(buf))]
        ELSE [ok |-> FALSE, event |-> event, inbuf |-> buf]

----------------------------------------------------------------------------
(* The reader goroutine, api.go:216-223.  input_comm is an unbuffered      *)
(* channel: a send and a receive on it happen together, as one step of the *)
(* two goroutines.                                                         *)

\* the bytes a keyboard sends: ESC, '[' and 'A'.  ESC [ A is a known sequence,
\* ESC [ is a prefix of it, and ESC A cannot grow into any known sequence.
Bytes == {27, 91, 65}

RECURSIVE SeqsUpTo(_)
SeqsUpTo(n) ==
    IF n = 0 THEN {<<>>}
    ELSE LET shorter == SeqsUpTo(n - 1)
         IN  shorter \cup {Append(q, b) : q \in {t \in shorter : Len(t) = n - 1}, b \in Bytes}

\* what one read of an open terminal returns: at least one byte (the buffer of
\* line 217 has room for 128)
Chunks == SeqsUpTo(MaxBytes) \ {<<>>}

\* n, _ := in.Read(buf), line 219: the read of reader r returns chunk.  A read
\* of an open terminal returns at least one byte (VMIN = 1); a read of the
\* device Shutdown closed returns 0 bytes and an error, which line 219 drops.
ReaderRead(r, chunk) ==
    /\ ~panicked
    /\ readers[r].pc = "read"
    /\ ndone < MaxReads
    /\ nbytes + Len(chunk) <= MaxBytes
    /\ \/ chunk # <<>> /\ in_open
       \/ chunk = <<>> /\ (~in_open \/ readers[r].session # nsessions)
    /\ readers' = [readers EXCEPT ![r].pc = "send", ![r].data = chunk]
    /\ nbytes' = nbytes + Len(chunk)
    /\ ndone' = ndone + 1
    /\ call' = [op |-> "reader"]
    /\ UNCHANGED <<tty, gridVars, attrVars, curVars, emitVars, sigVars, panicked,
                   in_open, inbuf, input_mode, poll, nsessions>>

\* with readers of two sessions on the one channel, the send of line 220 in one
\* meets the receive of line 221 in another: the slice never reaches PollEvent
ReaderToReader(s, r) ==
    /\ ~panicked
    /\ s # r
    /\ readers[s].pc = "send"
    /\ readers[r].pc = "recv"
    /\ readers' = [readers EXCEPT ![s].pc = "recv", ![s].data = <<>>,
                                  ![r].pc = "read", ![r].buf = readers[s].buf]
    /\ call' = [op |-> "reader"]
    /\ UNCHANGED <<tty, gridVars, attrVars, curVars, emitVars, sigVars, panicked,
                   in_open, inbuf, input_mode, poll, nsessions, nbytes, ndone>>

----------------------------------------------------------------------------
(* PollEvent, api.go:346-370 *)

\* the first attempt, lines 350-353, without the decode
PollEvent_first_nodecode(buf, mode) ==
    [ok |-> FALSE, event |-> [ZeroEvent EXCEPT !.Type = EventKey], inbuf |-> buf]

\* the first attempt, lines 350-353
PollEvent_first(buf, mode) ==
    extract_event([ZeroEvent EXCEPT !.Type = EventKey], buf, mode)

\* the call decoding in Esc mode whatever the input mode is
PollEventCall_escmode ==
    /\ CallerReady
    /\ in_open
    /\ LET r == PollEvent_first(inbuf, InputEsc)
       IN  /\ inbuf' = r.inbuf
           /\ IF r.ok
              THEN /\ poll' = PollIdle
                   /\ call' = [op |-> "PollEvent", event |-> r.event, received |-> 0]
              ELSE /\ poll' = [PollIdle EXCEPT !.pc = "select", !.event = r.event]
                   /\ call' = [op |-> "PollEvent.select"]
    /\ UNCHANGED <<tty, gridVars, attrVars, curVars, emitVars, sigVars, panicked,
                   in_open, readers, input_mode, nsessions, nbytes, ndone>>

\* the call, up to its return or to the select of line 356
PollEventCall ==
    /\ CallerReady
    /\ in_open
    /\ LET r == PollEvent_first(inbuf, input_mode)
       IN  /\ inbuf' = r.inbuf
           /\ IF r.ok
              THEN /\ poll' = PollIdle
                   /\ call' = [op |-> "PollEvent", event |-> r.event, received |-> 0]
              ELSE /\ poll' = [PollIdle EXCEPT !.pc = "select", !.event = r.event]
                   /\ call' = [op |-> "PollEvent.select"]
    /\ UNCHANGED <<tty, gridVars, attrVars, curVars, emitVars, sigVars, panicked,
                   in_open, readers, input_mode, nsessions, nbytes, ndone>>

\* case data := <-input_comm, lines 357-358, meeting the send of reader r (line 220)
PollRecv(r) ==
    /\ ~panicked
    /\ poll.pc = "select"
    /\ readers[r].pc = "send"
    /\ inbuf' = inbuf \o readers[r].data
    /\ poll' = [poll EXCEPT !.pc = "send", !.data = readers[r].data,
                            !.buf = readers[r].buf, !.received = @ + 1]
    /\ readers' = [readers EXCEPT ![r].pc = "recv"]
    /\ call' = [op |-> "PollEvent.recv"]
    /\ UNCHANGED <<tty, gridVars, attrVars, curVars, emitVars, sigVars, panicked,
                   in_open, input_mode, nsessions, nbytes, ndone>>

\* the resize event filled in from the size Init cached
PollEvent_resize_cached(event, buf, t) ==
    <<[event EXCEPT !.Type = EventResize, !.Width = termw, !.Height = termh], buf>>

\* what PollEvent does on a resize signal, lines 364-366: <<the event, inbuf>>
PollEvent_resize(event, buf, t) ==
    <<[event EXCEPT !.Type = EventResize, !.Width = t.w, !.Height = t.h], buf>>

\* lines 360-362 without the hand-back of line 359
PollSend_nohandback(r) ==
    /\ ~panicked
    /\ poll.pc = "send"
    /\ readers[r].pc = "recv"
    /\ readers' = readers
    /\ LET e == extract_event(poll.event, inbuf, input_mode)
       IN  /\ inbuf' = e.inbuf
           /\ IF e.ok
              THEN /\ poll' = PollIdle
                   /\ call' = [op |-> "PollEvent", event |-> e.event,
                               received |-> poll.received]
              ELSE /\ poll' = [poll EXCEPT !.pc = "select", !.event = e.event,
                                           !.data = <<>>, !.buf = 0]
                   /\ call' = [op |-> "PollEvent.select"]
    /\ UNCHANGED <<tty, gridVars, attrVars, curVars, emitVars, sigVars, panicked,
                   in_open, input_mode, nsessions, nbytes, ndone>>

\* the hand-back of line 359 followed by a return whatever extract_event says
PollSend_returns(r) ==
    /\ ~panicked
    /\ poll.pc = "send"
    /\ readers[r].pc = "recv"
    /\ readers' = [readers EXCEPT ![r].pc = "read", ![r].buf = poll.buf,
                                  ![r].data = <<>>]
    /\ LET e == extract_event(poll.event, inbuf, input_mode)
       IN  /\ inbuf' = e.inbuf
           /\ poll' = PollIdle
           /\ call' = [op |-> "PollEvent", event |-> e.event,
                       received |-> poll.received]
    /\ UNCHANGED <<tty, gridVars, attrVars, curVars, emitVars, sigVars, panicked,
                   in_open, input_mode, nsessions, nbytes, ndone>>

\* input_comm <- data, line 359, meeting the receive of reader r (line 221), then
\* lines 360-362
PollSend(r) ==
    /\ ~panicked
    /\ poll.pc = "send"
    /\ readers[r].pc = "recv"
    /\ readers' = [readers EXCEPT ![r].pc = "read", ![r].buf = poll.buf,
                                  ![r].data = <<>>]
    /\ LET e == extract_event(poll.event, inbuf, input_mode)
       IN  /\ inbuf' = e.inbuf
           /\ IF e.ok
              THEN /\ poll' = PollIdle
                   /\ call' = [op |-> "PollEvent", event |-> e.event,
                               received |-> poll.received]
              ELSE /\ poll' = [poll EXCEPT !.pc = "select", !.event = e.event,
                                           !.data = <<>>, !.buf = 0]
                   /\ call' = [op |-> "PollEvent.select"]
    /\ UNCHANGED <<tty, gridVars, attrVars, curVars, emitVars, sigVars, panicked,
                   in_open, input_mode, nsessions, nbytes, ndone>>

\* the select case of lines 363-366 taking the draw-side signal as well
PollResize_takesdraw ==
    /\ ~panicked
    /\ poll.pc = "select"
    /\ sigwinch_input
    /\ sigwinch_input' = FALSE
    /\ sigwinch_draw' = FALSE
    /\ LET r == PollEvent_resize(poll.event, inbuf, tty)
       IN  /\ inbuf' = r[2]
           /\ call' = [op |-> "PollEvent", event |-> r[1], received |-> poll.received]
    /\ poll' = PollIdle
    /\ UNCHANGED <<tty, gridVars, attrVars, curVars, emitVars, panicked,
                   in_open, readers, input_mode, nsessions, nbytes, ndone>>

\* case <-sigwinch_input, lines 363-366
PollResize ==
    /\ ~panicked
    /\ poll.pc = "select"
    /\ sigwinch_input
    /\ sigwinch_input' = FALSE
    /\ LET r == PollEvent_resize(poll.event, inbuf, tty)
       IN  /\ inbuf' = r[2]
           /\ call' = [op |-> "PollEvent", event |-> r[1], received |-> poll.received]
    /\ poll' = PollIdle
    /\ UNCHANGED <<tty, gridVars, attrVars, curVars, emitVars, sigwinch_draw, panicked,
                   in_open, readers, input_mode, nsessions, nbytes, ndone>>

\* SetInputMode, api.go:398-403; InputCurrent is 0
SetInputMode(mode) ==
    /\ CallerReady
    /\ input_mode' = IF mode # 0 THEN mode ELSE input_mode
    /\ call' = [op |-> "SetInputMode", result |-> input_mode']
    /\ UNCHANGED <<tty, gridVars, attrVars, curVars, emitVars, sigVars, panicked,
                   in_open, readers, inbuf, poll, nsessions, nbytes, ndone>>

----------------------------------------------------------------------------
(* Shutdown and a further Init *)

\* Shutdown, api.go:230-240: five sequences written, the devices closed.  The
\* reader goroutine is left as it is.
Shutdown ==
    /\ CallerReady
    /\ in_open
    /\ written' = <<Tok("show", 0, 0), Tok("sgr0", 0, 0), Tok("clear_screen", 0, 0),
                    Tok("exit_ca", 0, 0), Tok("exit_keypad", 0, 0)>>
    /\ in_open' = FALSE
    /\ call' = [op |-> "Shutdown"]
    /\ UNCHANGED <<tty, gridVars, attrVars, curVars, lastx, lasty, lastfg, lastbg,
                   outbuf, sigVars, panicked, readers, inbuf, input_mode, poll,
                   nsessions, nbytes, ndone>>

\* Init of a further session, api.go:159-226
TermboxInit ==
    /\ CallerReady
    /\ ~in_open
    /\ nsessions < MaxSessions
    /\ in_open' = TRUE
    /\ written' = <<Tok("enter_ca", 0, 0), Tok("enter_keypad", 0, 0),
                    Tok("hide", 0, 0), Tok("clear_screen", 0, 0)>>
    /\ termw' = tty.w
    /\ termh' = tty.h
    /\ back_buffer' = cellbuf_clear(cellbuf_init(tty.w, tty.h), foreground, background)
    /\ front_buffer' = cellbuf_clear(cellbuf_init(tty.w, tty.h), foreground, background)
    /\ readers' = Append(readers, NewReader(Len(readers) + 1, nsessions + 1))
    /\ nsessions' = nsessions + 1
    /\ call' = [op |-> "Init"]
    /\ UNCHANGED <<tty, attrVars, curVars, lastx, lasty, lastfg, lastbg, outbuf,
                   sigVars, panicked, inbuf, input_mode, poll, nbytes, ndone>>

----------------------------------------------------------------------------
(* Specifications *)

\* the coordinates a caller tries on the current back buffer: the first and the
\* last column (row), and one step outside on each side
Xs == {-1, 0, back_buffer.width - 1, back_buffer.width}
Ys == {-1, 0, back_buffer.height - 1, back_buffer.height}

\* the cells slice of length n a caller hands to Blit
BlitSrc(n) == [k \in 1..n |-> IF k % 2 = 1 THEN CellA ELSE CellB]

\* grid writes on a terminal of any size
NextWrite ==
    \/ \E x \in Xs, y \in Ys : PutCell(x, y, CellB) /\ UNCHANGED <<nops, auxVars>>
    \/ \E x \in Xs, y \in Ys : ChangeCell(x, y, 65, ColorRed, ColorBlack) /\ UNCHANGED <<nops, auxVars>>
    \/ \E x \in Xs, y \in Ys, w \in 1..back_buffer.width, n \in 0..MaxBlitLen :
           Blit(x, y, w, BlitSrc(n)) /\ UNCHANGED <<nops, auxVars>>
    \/ Clear /\ UNCHANGED <<nops, auxVars>>

SpecWrite == Init /\ [][NextWrite]_vars

\* a render run: at most MaxOps steps of writes into the grid, cursor moves,
\* Present, Clear and resizes of the terminal
Step(A) == nops < MaxOps /\ nops' = nops + 1 /\ A /\ UNCHANGED auxVars

CursorInputs == {<<0, 1>>, <<1, 0>>}

NextPresent ==
    \/ \E x \in 0..(back_buffer.width - 1), y \in 0..(back_buffer.height - 1),
          c \in {CellA, CellB} : Step(ChangeCell(x, y, c.Ch, c.Fg, c.Bg))
    \/ Step(Present)
    \/ Step(Clear)
    \/ \E p \in CursorInputs : Step(SetCursor(p[1], p[2]))
    \/ Step(HideCursor)
    \/ Step(SetClearAttributes(ColorRed, ColorBlack))
    \/ \E s \in TermSizes : Step(Sigwinch(s[1], s[2]))

SpecPresent == Init /\ [][NextPresent]_vars

\* the input side: the readers, PollEvent, resizes, sessions
InputSizes == {<<1, 1>>, <<2, 1>>}

InitInput == Init /\ tty = [w |-> 1, h |-> 1]

NextInput ==
    \/ PollEventCall /\ UNCHANGED <<nops, auxVars>>
    \/ \E r \in 1..Len(readers) : PollRecv(r) /\ UNCHANGED <<nops, auxVars>>
    \/ \E r \in 1..Len(readers) : PollSend(r) /\ UNCHANGED <<nops, auxVars>>
    \/ PollResize /\ UNCHANGED <<nops, auxVars>>
    \/ \E r \in 1..Len(readers), chunk \in Chunks \cup {<<>>} :
           ReaderRead(r, chunk) /\ UNCHANGED <<nops, auxVars>>
    \/ \E s \in 1..Len(readers), r \in 1..Len(readers) :
           ReaderToReader(s, r) /\ UNCHANGED <<nops, auxVars>>
    \/ \E mode \in {0, InputEsc, InputAlt} : SetInputMode(mode) /\ UNCHANGED <<nops, auxVars>>
    \/ \E s \in InputSizes : Sigwinch(s[1], s[2]) /\ UNCHANGED <<nops, auxVars>>
    \/ Shutdown /\ UNCHANGED <<nops, auxVars>>
    \/ TermboxInit /\ UNCHANGED <<nops, auxVars>>

SpecInput == InitInput /\ [][NextInput]_vars

----------------------------------------------------------------------------
(* Claims on the grid writes, checked under SpecWrite *)

IsPutCell(c) == c.op \in {"PutCell", "ChangeCell"}

HasContent(b) == \E i \in 1..Len(b.cells) : b.cells[i] \in {CellA, CellB}

\* C1: a PutCell or ChangeCell whose x or y lies outside the back grid returns
\* without a panic and leaves every cell of the back grid as it was.
C1_PutCellOutOfRangeNoop ==
    [][(IsPutCell(call') /\ ~call'.inrange)
          => (back_buffer' = back_buffer /\ ~panicked')]_vars

\* an out-of-range PutCell has run on a grid that holds written cells
C1_Witness ==
    /\ IsPutCell(call) /\ ~call.inrange
    /\ HasContent(back_buffer)

\* C2: a Blit (w > 0) whose w x h rectangle at (x, y) does not lie inside the
\* back grid leaves the whole back grid equal to what it was, and does not panic.
C2_BlitAllOrNothing ==
    [][(call'.op = "Blit" /\ ~call'.fits)
          => (back_buffer' = back_buffer /\ ~panicked')]_vars

\* a Blit that does not fit has run on a grid that holds written cells
C2_Witness ==
    /\ call.op = "Blit" /\ ~call.fits
    /\ HasContent(back_buffer)

\* C3: a Blit whose rectangle fits copies it row by row: every cell of the
\* rectangle holds its source cell, every other cell is unchanged, cells beyond
\* h*w are ignored, and the geometry of the grid is untouched.
C3_BlitCopiesRect ==
    [][(call'.op = "Blit" /\ call'.fits) =>
        LET c == call'
            h == Len(c.cells) \div c.w
            width == back_buffer.width
            InRect(k) == \E i \in 0..(h - 1), j \in 0..(c.w - 1) :
                            k = (c.y + i) * width + (c.x + j) + 1
        IN  /\ ~panicked'
            /\ back_buffer'.width = width
            /\ back_buffer'.height = back_buffer.height
            /\ Len(back_buffer'.cells) = Len(back_buffer.cells)
            /\ \A i \in 0..(h - 1), j \in 0..(c.w - 1) :
                  back_buffer'.cells[(c.y + i) * width + (c.x + j) + 1]
                      = c.cells[i * c.w + j + 1]
            /\ \A k \in 1..Len(back_buffer.cells) :
                  ~InRect(k) => back_buffer'.cells[k] = back_buffer.cells[k]]_vars

\* a fitting Blit of two rows narrower than the grid has run, and a cell outside
\* the rectangle still holds what was written before
C3_Witness ==
    /\ call.op = "Blit" /\ call.fits
    /\ Len(call.cells) \div call.w = 2
    /\ call.w < back_buffer.width
    /\ \E k \in 1..Len(back_buffer.cells) :
          /\ back_buffer.cells[k] \in {CellA, CellB}
          /\ \A i \in 0..1, j \in 0..(call.w - 1) :
                k # (call.y + i) * back_buffer.width + (call.x + j) + 1

\* a fitting Blit with trailing source cells has run
C3_WitnessTrailing ==
    /\ call.op = "Blit" /\ call.fits
    /\ Len(call.cells) > (Len(call.cells) \div call.w) * call.w
    /\ Len(call.cells) \div call.w >= 1

----------------------------------------------------------------------------
(* Claims on Present and the cursor, checked under SpecPresent *)

CursorShown == ~is_cursor_hidden(cursor_x, cursor_y)

\* what the operation recorded in call appended to the buffer buf
Emitted(buf) == SubSeq(buf, call.pending + 1, Len(buf))

Count(seq, t) == Cardinality({i \in 1..Len(seq) : seq[i].t = t})

\* C4 as claimed: the second of two consecutive Present calls writes nothing.
C4_SecondPresentEmpty ==
    (call.op = "Present" /\ call.again) => written = <<>>

\* C4 as amended: the second of two consecutive Present calls writes nothing for
\* any cell; it writes nothing at all when the cursor is hidden, and exactly the
\* one move to the logical cursor when the cursor is shown.
C4_SecondPresentOnlyCursor ==
    (call.op = "Present" /\ call.again) =>
        written = IF CursorShown THEN <<Tok("move", cursor_y + 1, cursor_x + 1)>>
                  ELSE <<>>

\* Present ran twice in a row on a grid that holds written cells, cursor shown
C4_Witness ==
    /\ call.op = "Present" /\ call.again
    /\ HasContent(front_buffer)
    /\ CursorShown

\* the cells of the two grids that differ
DiffCells == {k \in 1..Len(back_buffer.cells) : back_buffer.cells[k] # front_buffer.cells[k]}

\* what Present wrote for the cells: its output without the final cursor move
CellOutput(w, shown) == SubSeq(w, 1, Len(w) - (IF shown THEN 1 ELSE 0))

\* C5: with the grids equal but for the one in-range cell (x, y) just changed,
\* Present writes for the cells exactly one attribute-set, one move to (x, y)
\* and one character.
C5_OneChangedCellOutput ==
    [][( /\ call'.op = "Present"
         /\ IsPutCell(call) /\ call.inrange
         /\ ~sigwinch_draw
         /\ outbuf = <<>>
         /\ DiffCells = {call.y * back_buffer.width + call.x + 1} )
        => CellOutput(written', CursorShown)
             = << Tok("attr", call.cell.Fg, call.cell.Bg),
                  Tok("move", call.y + 1, call.x + 1),
                  Tok("char", call.cell.Ch, 0) >>]_vars

IsSetCursor(c) == c.op \in {"SetCursor", "HideCursor"}

\* C6: a SetCursor or HideCursor call emits show-cursor exactly when the cursor
\* was hidden before and is shown after, hide-cursor exactly when it was shown
\* before and is hidden after, and neither when it stays shown or stays hidden.
C6_CursorEdgeEmission ==
    IsSetCursor(call) =>
        /\ Count(Emitted(outbuf), "show")
             = IF call.washidden /\ CursorShown THEN 1 ELSE 0
        /\ Count(Emitted(outbuf), "hide")
             = IF ~call.washidden /\ ~CursorShown THEN 1 ELSE 0

\* the cursor was shown, and a SetCursor moved it to another shown position
C6_Witness ==
    /\ call.op = "SetCursor" /\ ~call.washidden /\ CursorShown
    /\ Count(Emitted(outbuf), "move") = 1

\* a HideCursor hid a shown cursor
C6_WitnessHide ==
    /\ call.op = "HideCursor" /\ ~call.washidden
    /\ Emitted(outbuf) = <<Tok("hide", 0, 0)>>

\* C7: every move emitted for the logical cursor targets row cursor_y + 1,
\* column cursor_x + 1: the move of SetCursor and the final move of Present.
C7_CursorMoveOneBased ==
    /\ (call.op = "SetCursor" /\ CursorShown)
          => outbuf[Len(outbuf)] = Tok("move", cursor_y + 1, cursor_x + 1)
    /\ (call.op = "Present" /\ CursorShown)
          => written[Len(written)] = Tok("move", cursor_y + 1, cursor_x + 1)

----------------------------------------------------------------------------
(* Claims on the input side, checked under SpecInput *)

\* filled buffers on their way: offered by a reader, or held by PollEvent
InFlight ==
    Cardinality({r \in 1..Len(readers) : readers[r].pc = "send"})
        + (IF poll.pc = "send" THEN 1 ELSE 0)

\* terminal reads issued whose buffer PollEvent has not handed back yet: a
\* reader in its read or offering the slice, or PollEvent holding the slice
Outstanding ==
    Cardinality({r \in 1..Len(readers) : readers[r].pc \in {"read", "send"}})
        + (IF poll.pc = "send" THEN 1 ELSE 0)

\* C8: the (k+1)-th terminal read is not issued before PollEvent handed back
\* the buffer of the k-th, so at most one read is outstanding; at most one
\* filled buffer is in flight; no reader is reading into the buffer PollEvent
\* holds.
C8_HandBackSequencing ==
    /\ Outstanding <= 1
    /\ InFlight <= 1
    /\ \A r \in 1..Len(readers) :
          (poll.pc = "send" /\ readers[r].pc = "read") => readers[r].buf # poll.buf

\* the same, as long as Init ran once only
C8_FirstSessionOnly == (nsessions = 1) => C8_HandBackSequencing

\* C9: a PollEvent called while the pending bytes hold a complete event returns
\* that event at once, consuming its bytes only: no chunk is received, no
\* reader moves, the input-side resize slot is left alone.  Every return of
\* PollEvent carries one event, a key or a resize.
C9_PendingEventFirst ==
    [][ /\ (poll.pc = "idle" /\ call'.op \in {"PollEvent", "PollEvent.select"}) =>
              LET d == Decode(inbuf, input_mode, 0)
              IN  d.ok => /\ call'.op = "PollEvent"
                          /\ call'.event = Event(EventKey, d.mod, d.key, d.ch, 0, 0)
                          /\ call'.received = 0
                          /\ inbuf' = SubSeq(inbuf, d.n + 1, Len(inbuf))
                          /\ readers' = readers
                          /\ sigwinch_input' = sigwinch_input
        /\ (call'.op = "PollEvent") =>
              /\ poll'.pc = "idle"
              /\ call'.event.Type \in {EventKey, EventResize} ]_vars

\* PollEvent returned 'A' from the pending bytes while a chunk was on offer and a
\* resize signal was pending
C9_Witness ==
    /\ call.op = "PollEvent" /\ call.received = 0
    /\ call.event.Type = EventKey /\ call.event.Ch = 65
    /\ sigwinch_input
    /\ \E r \in 1..Len(readers) : readers[r].pc = "send"

\* C10: the step that takes the input-side resize signal is a waiting PollEvent
\* returning a Resize event with the geometry of the terminal at that moment and
\* no key field set; the pending bytes are left as they are.
C10_ResizeReturnsGeometry ==
    [][(sigwinch_input /\ ~sigwinch_input') =>
          /\ poll.pc = "select"
          /\ poll'.pc = "idle"
          /\ call'.op = "PollEvent"
          /\ call'.event = Event(EventResize, 0, 0, 0, tty.w, tty.h)
          /\ inbuf' = inbuf ]_vars

\* PollEvent received a chunk that decodes to nothing yet, then returned the
\* resize of a terminal whose size differs from the size Init saw
C10_Witness ==
    /\ call.op = "PollEvent" /\ call.event.Type = EventResize
    /\ call.received >= 1
    /\ inbuf # <<>>
    /\ call.event.Width # termw

----------------------------------------------------------------------------
(* The two SIGWINCH slots, checked under SpecResize: a session in which    *)
(* the terminal is resized in bursts while the caller draws and polls.     *)

\* the number of SIGWINCHs that arrive before a slot is taken
MaxBurst == 2

\* a SIGWINCH is counted for both slots
Counted == nsig' = [nsig EXCEPT !.draw = @ + 1, !.input = @ + 1]

\* a consumer looked at its slot
TookDraw  == nsig' = [nsig EXCEPT !.draw = 0, !.took = nsig.draw]
TookInput == nsig' = [nsig EXCEPT !.input = 0, !.took = nsig.input]

NextResize ==
    \/ \E s \in InputSizes :
          /\ nsig.draw < MaxBurst /\ nsig.input < MaxBurst
          /\ Sigwinch(s[1], s[2]) /\ Counted /\ UNCHANGED <<nops, rdlog>>
    \/ Present /\ TookDraw /\ UNCHANGED <<nops, rdlog>>
    \/ Clear /\ TookDraw /\ UNCHANGED <<nops, rdlog>>
    \/ ChangeCell(0, 0, 65, ColorRed, ColorBlack) /\ UNCHANGED <<nops, auxVars>>
    \/ PollEventCall /\ UNCHANGED <<nops, auxVars>>
    \/ \E r \in 1..Len(readers) : PollRecv(r) /\ UNCHANGED <<nops, auxVars>>
    \/ \E r \in 1..Len(readers) : PollSend(r) /\ UNCHANGED <<nops, auxVars>>
    \/ PollResize /\ TookInput /\ UNCHANGED <<nops, rdlog>>
    \/ \E r \in 1..Len(readers), chunk \in {<<27>>, <<65>>} :
           ReaderRead(r, chunk) /\ UNCHANGED <<nops, auxVars>>

SpecResize == InitInput /\ [][NextResize]_vars

IsDraw(c) == c.op \in {"Present", "Clear"}

IsPoll(c) == c.op \in {"PollEvent", "PollEvent.select", "PollEvent.recv"}

ReturnedResize(c) == c.op = "PollEvent" /\ c.event.Type = EventResize

\* both grids and the cached size have the geometry of the terminal
GridsAt(t) ==
    /\ termw = t.w /\ termh = t.h
    /\ back_buffer.width = t.w /\ back_buffer.height = t.h
    /\ front_buffer.width = t.w /\ front_buffer.height = t.h

\* C11: a Present or a Clear leaves the input-side slot as it is, and every step
\* of PollEvent leaves the draw-side slot and the grids as they are: neither
\* consumer takes the notification of the other.
C11_SlotsIndependent ==
    [][ /\ IsDraw(call') => sigwinch_input' = sigwinch_input
        /\ IsPoll(call') => /\ sigwinch_draw' = sigwinch_draw
                            /\ UNCHANGED gridVars ]_vars

\* Present resized the grids for a notification that is still pending for
\* PollEvent
C11_Witness ==
    /\ call.op = "Present" /\ call.resized
    /\ sigwinch_input
    /\ nsig.input >= 1

\* PollEvent returned a Resize event for a notification that is still pending
\* for Present and Clear
C11_WitnessPoll ==
    /\ ReturnedResize(call)
    /\ sigwinch_draw
    /\ ~GridsAt(tty)

\* C12: a slot holds a pending flag exactly when at least one SIGWINCH arrived
\* since it was last taken, however many arrived; a SIGWINCH can always be
\* delivered, also to full slots; the consumer that finds n >= 1 of them resizes
\* once (Present, Clear: both grids at the geometry of the terminal) or returns
\* one Resize event (PollEvent), and its slot is empty afterwards.
C12_SlotsCoalesce ==
    /\ [](/\ sigwinch_draw <=> nsig.draw >= 1
          /\ sigwinch_input <=> nsig.input >= 1
          /\ ENABLED Sigwinch(1, 1))
    /\ [][ /\ IsDraw(call') =>
                /\ call'.resized <=> nsig.draw >= 1
                /\ ~sigwinch_draw'
                /\ call'.resized => GridsAt(tty)'
           /\ ReturnedResize(call') => (nsig.input >= 1 /\ ~sigwinch_input')
           /\ (sigwinch_input /\ ~sigwinch_input') => ReturnedResize(call') ]_vars

\* a Present found two SIGWINCHs in its slot and resized the grids
C12_Witness ==
    /\ call.op = "Present" /\ call.resized
    /\ nsig.took = MaxBurst
    /\ nsig.draw = 0
    /\ GridsAt(tty)

\* a PollEvent found two SIGWINCHs in its slot and returned the Resize event
C12_WitnessPoll ==
    /\ ReturnedResize(call)
    /\ nsig.took = MaxBurst
    /\ nsig.input = 0

----------------------------------------------------------------------------
(* Progress of the resize, checked under SpecResizeLive: the keyboard      *)
(* never runs out of bytes and the terminal may be resized for ever.       *)

\* n, _ := in.Read(buf), line 219, of a keyboard that is not out of bytes: the
\* read returns chunk and the budget of the bounded runs is left alone
ReaderReadOn(r, chunk) ==
    /\ ~panicked
    /\ readers[r].pc = "read"
    /\ in_open
    /\ chunk # <<>>
    /\ readers' = [readers EXCEPT ![r].pc = "send", ![r].data = chunk]
    /\ call' = [op |-> "reader"]
    /\ UNCHANGED <<tty, gridVars, attrVars, curVars, emitVars, sigVars, panicked,
                   in_open, inbuf, input_mode, poll, nsessions, nbytes, ndone>>

\* the chunks typed: a key, two keys at once, the first byte of a sequence
LiveChunks == {<<65>>, <<65, 65>>, <<27>>}

DrawStep == Present \/ Clear

PollSendStep == \E r \in 1..Len(readers) : PollSend(r)

NextResizeLive ==
    \/ \E s \in InputSizes : Sigwinch(s[1], s[2]) /\ UNCHANGED <<nops, auxVars>>
    \/ Present /\ UNCHANGED <<nops, auxVars>>
    \/ Clear /\ UNCHANGED <<nops, auxVars>>
    \/ PollEventCall /\ UNCHANGED <<nops, auxVars>>
    \/ \E r \in 1..Len(readers) : PollRecv(r) /\ UNCHANGED <<nops, auxVars>>
    \/ PollSendStep /\ UNCHANGED <<nops, auxVars>>
    \/ PollResize /\ UNCHANGED <<nops, auxVars>>
    \/ \E r \in 1..Len(readers), chunk \in LiveChunks :
           ReaderReadOn(r, chunk) /\ UNCHANGED <<nops, auxVars>>

\* the hand-back of line 359 completes, the reader being at its receive (weak
\* fairness); the select of line 356 chooses among its ready cases at random,
\* so a case that is ready again and again is taken in the end (strong fairness)
SpecResizeLive ==
    /\ InitInput
    /\ [][NextResizeLive]_vars
    /\ WF_vars(PollSendStep /\ UNCHANGED <<nops, auxVars>>)
    /\ SF_vars(PollResize /\ UNCHANGED <<nops, auxVars>>)

DrawResized == IsDraw(call) /\ call.resized /\ GridsAt(tty)

\* C13: in a run in which the caller keeps calling Present or Clear, a pending
\* draw-side notification leads to a Present or Clear that resizes both grids to
\* the geometry of the terminal; in a run in which the caller keeps calling
\* PollEvent, a pending input-side notification leads to a PollEvent that
\* returns a Resize event.
C13_ResizeEventuallyObserved ==
    /\ ([]<><<DrawStep>>_vars) => (sigwinch_draw ~> DrawResized)
    /\ ([]<><<PollEventCall>>_vars) => (sigwinch_input ~> ReturnedResize(call))

\* a Present or Clear resized the grids to a terminal that is wider than the one
\* Init saw, after PollEvent had taken the same notification on its side
C13_Witness ==
    /\ DrawResized
    /\ tty.w = 2
    /\ ~sigwinch_input

----------------------------------------------------------------------------
(* The decoder on pending bytes, checked under SpecDecode: PollEvent is    *)
(* called with every short byte string pending, in both input modes.       *)

\* the longest byte string pending at the start
MaxPending == 3

\* ESC, '[', 'A', 'x', Enter and the lead byte of a two-byte character
DecodeBytes == {27, 91, 65, 120, 13, 195}

RECURSIVE StringsUpTo(_, _)
StringsUpTo(B, n) ==
    IF n = 0 THEN {<<>>}
    ELSE LET shorter == StringsUpTo(B, n - 1)
         IN  shorter \cup {Append(q, b) : q \in {t \in shorter : Len(t) = n - 1}, b \in B}

InitDecode ==
    \E buf \in StringsUpTo(DecodeBytes, MaxPending), mode \in {InputEsc, InputAlt} :
        InitWith(buf, mode) /\ tty = [w |-> 1, h |-> 1]

NextDecode ==
    \/ PollEventCall /\ UNCHANGED <<nops, auxVars>>
    \/ \E mode \in {0, InputEsc, InputAlt} : SetInputMode(mode) /\ UNCHANGED <<nops, auxVars>>

SpecDecode == InitDecode /\ [][NextDecode]_vars

\* ESC followed by x is no known sequence and no prefix of one
CannotExtend(x) == \A k \in KnownSeqs : ~IsPrefix(<<27, x>>, k.seq)

\* the key of the single byte x: a named key below 0x21 and at 0x7F, else the
\* character
PlainKey(x, mod) ==
    IF x <= 32 \/ x = 127 THEN Event(EventKey, mod, x, 0, 0, 0)
    ELSE Event(EventKey, mod, 0, x, 0, 0)

\* the step is the first decode of a PollEvent call
FirstDecode == poll.pc = "idle" /\ call'.op \in {"PollEvent", "PollEvent.select"}

\* C14: with ESC and a byte x pending, x a one-byte key that cannot extend ESC to
\* a known sequence: in Esc mode the decode returns KeyEsc and consumes the ESC
\* only, and a decode of the pending x returns the plain key of x without Alt;
\* in Alt mode one decode returns the key of x with Alt and consumes both bytes.
C14_EscapeAmbiguity ==
    [][FirstDecode =>
        /\ ( /\ Len(inbuf) >= 2 /\ inbuf[1] = 27
             /\ inbuf[2] # 27 /\ inbuf[2] < 128 /\ CannotExtend(inbuf[2]) ) =>
              /\ call'.op = "PollEvent"
              /\ input_mode = InputEsc =>
                    /\ call'.event = Event(EventKey, 0, KeyEsc, 0, 0, 0)
                    /\ inbuf' = Tail(inbuf)
              /\ input_mode = InputAlt =>
                    /\ call'.event = PlainKey(inbuf[2], ModAlt)
                    /\ inbuf' = Tail(Tail(inbuf))
        /\ ( Len(inbuf) >= 1 /\ inbuf[1] # 27 /\ inbuf[1] < 128 ) =>
              /\ call'.op = "PollEvent"
              /\ call'.event = PlainKey(inbuf[1], 0)
              /\ inbuf' = Tail(inbuf) ]_vars

\* in Esc mode the decode of ESC x returned KeyEsc and left the x pending
C14_Witness ==
    /\ call.op = "PollEvent"
    /\ call.event = Event(EventKey, 0, KeyEsc, 0, 0, 0)
    /\ input_mode = InputEsc
    /\ inbuf = <<120>>

\* in Alt mode the decode of ESC x returned x with Alt and left nothing pending
C14_WitnessAlt ==
    /\ call.op = "PollEvent"
    /\ call.event = Event(EventKey, ModAlt, 0, 120, 0, 0)
    /\ input_mode = InputAlt
    /\ inbuf = <<>>

\* the x left pending by KeyEsc was returned as a plain key
C14_WitnessSecond ==
    /\ call.op = "PollEvent"
    /\ call.event = Event(EventKey, 0, 0, 120, 0, 0)
    /\ input_mode = InputEsc
    /\ inbuf = <<>>

----------------------------------------------------------------------------
(* Further claims on the input side, checked under SpecInput *)

\* the step runs extract_event: line 351, or line 360 after the hand-back
DecodeStep ==
    /\ poll.pc \in {"idle", "send"}
    /\ call'.op \in {"PollEvent", "PollEvent.select"}

ReturnedKey(c) == c.op = "PollEvent" /\ c.event.Type = EventKey

\* C15: with the one byte ESC pending, in Esc mode and in Alt mode, the decode
\* yields no event and consumes nothing, and PollEvent goes on waiting; a
\* waiting PollEvent returns a key only from the decode that follows the receipt
\* of a chunk.
C15_LoneEscHeld ==
    [][ /\ (DecodeStep /\ inbuf = <<27>>) =>
              /\ call'.op = "PollEvent.select"
              /\ poll'.pc = "select"
              /\ inbuf' = inbuf
        /\ (poll.pc = "select" /\ inbuf = <<27>>) =>
              /\ ~ReturnedKey(call')
              /\ inbuf' # inbuf => call'.op = "PollEvent.recv" ]_vars

\* PollEvent received the chunk ESC in Alt mode and is waiting, ESC pending
C15_Witness ==
    /\ poll.pc = "select"
    /\ poll.received >= 1
    /\ inbuf = <<27>>
    /\ input_mode = InputAlt

\* the same in Esc mode
C15_WitnessEsc ==
    /\ poll.pc = "select"
    /\ poll.received >= 1
    /\ inbuf = <<27>>
    /\ input_mode = InputEsc

----------------------------------------------------------------------------
(* The geometry of the two grids, checked under SpecGrid: runs of at most  *)
(* MaxOps grid writes, Clear, Present and resizes of the terminal.         *)

\* Size, api.go:374-376
Size == <<termw, termh>>

NextGrid ==
    \/ \E x \in {0, back_buffer.width}, y \in {0, 1} : Step(PutCell(x, y, CellB))
    \/ \E x \in {0, 1}, y \in {0, 1}, w \in {1, back_buffer.width}, n \in {1, MaxBlitLen} :
           Step(Blit(x, y, w, BlitSrc(n)))
    \/ Step(Clear)
    \/ Step(Present)
    \/ \E s \in TermSizes : Step(Sigwinch(s[1], s[2]))

SpecGrid == Init /\ [][NextGrid]_vars

Dims(b) == <<b.width, b.height>>

Blank(b, fg, bg) == \A i \in 1..Len(b.cells) : b.cells[i] = Cell(32, fg, bg)

\* C16: in every state the two grids have the same width and height, each holds
\* width*height cells, and Size() returns that width and height; a step that
\* changes the dimensions gives both grids the new dimensions, with none of
\* the old content.
C16_GridsSameGeometry ==
    /\ [](/\ Dims(back_buffer) = Dims(front_buffer)
          /\ Len(back_buffer.cells) = back_buffer.width * back_buffer.height
          /\ Len(front_buffer.cells) = front_buffer.width * front_buffer.height
          /\ Size = Dims(back_buffer)
          /\ ~panicked)
    /\ [][(Dims(back_buffer') # Dims(back_buffer) \/ Dims(front_buffer') # Dims(front_buffer))
             => /\ Dims(back_buffer') = <<tty.w, tty.h>>
                /\ Dims(front_buffer') = <<tty.w, tty.h>>
                /\ Blank(back_buffer', foreground, background)
                /\ Blank(front_buffer', foreground, background)]_vars

\* a Present or Clear changed the dimensions of grids that held written cells
\* and had been presented
C16_Witness ==
    /\ IsDraw(call) /\ call.resized
    /\ Size = <<tty.w, tty.h>>
    /\ Size = Dims(front_buffer)
    /\ nops = MaxOps
    /\ written # <<>>

----------------------------------------------------------------------------
(* Present and a pending resize, checked under SpecPresent *)

\* the positions in w of the moves made for a cell: a move followed by a character
CellMoves(w) == {i \in 1..(Len(w) - 1) : w[i].t = "move" /\ w[i + 1].t = "char"}

\* C17: when Present returns, the slot of the draw side is empty, the grids have
\* the geometry the terminal had at the call if a resize was pending, the front
\* grid equals the back grid cell by cell, and every cell written lies inside
\* that geometry; a Present that resized compared the grids after the resize,
\* so it wrote no cell at all.
C17_PresentResolvesResize ==
    [][call'.op = "Present" =>
         /\ ~panicked'
         /\ ~sigwinch_draw'
         /\ call'.resized <=> sigwinch_draw
         /\ call'.resized => Dims(front_buffer') = <<tty.w, tty.h>>
         /\ Dims(front_buffer') = Dims(back_buffer')
         /\ Len(front_buffer'.cells) = front_buffer'.width * front_buffer'.height
         /\ \A i \in 1..Len(front_buffer'.cells) :
               front_buffer'.cells[i] = back_buffer'.cells[i]
         /\ \A i \in CellMoves(written') :
               /\ written'[i].a \in 1..front_buffer'.height
               /\ written'[i].b \in 1..front_buffer'.width
         /\ call'.resized => Count(written', "char") = 0 ]_vars

\* Present ran with a resize pending, after cells were written and presented
C17_Witness ==
    /\ call.op = "Present" /\ call.resized
    /\ front_buffer = back_buffer
    /\ Dims(front_buffer) = <<tty.w, tty.h>>
    /\ lastfg = ColorRed
    /\ nops = MaxOps

\* Present ran with no resize pending on grids that differed
C17_WitnessDiff ==
    /\ call.op = "Present" /\ ~call.resized
    /\ front_buffer = back_buffer
    /\ HasContent(front_buffer)
    /\ Count(written, "char") >= 1

----------------------------------------------------------------------------
(* The way of the bytes from the reads to the decoder, checked under       *)
(* SpecFifo: the runs of SpecInput without resizes, with the log of the    *)
(* bytes read and received.                                                *)

\* a read returned chunk
LogRead(chunk) == rdlog' = [rdlog EXCEPT !.bytes = @ \o chunk]

\* PollEvent received the chunk of reader r
LogRecv(r) == rdlog' = [rdlog EXCEPT !.recv = @ \o readers[r].data]

\* a decode consumed what is missing from inbuf afterwards
LogDecode == rdlog' = [rdlog EXCEPT !.eaten = @ + Len(inbuf) - Len(inbuf')]

NextFifo ==
    \/ PollEventCall /\ LogDecode /\ UNCHANGED <<nops, nsig>>
    \/ \E r \in 1..Len(readers) : PollRecv(r) /\ LogRecv(r) /\ UNCHANGED <<nops, nsig>>
    \/ \E r \in 1..Len(readers) : PollSend(r) /\ LogDecode /\ UNCHANGED <<nops, nsig>>
    \/ \E r \in 1..Len(readers), chunk \in Chunks \cup {<<>>} :
           ReaderRead(r, chunk) /\ LogRead(chunk) /\ UNCHANGED <<nops, nsig>>
    \/ \E s \in 1..Len(readers), r \in 1..Len(readers) :
           ReaderToReader(s, r) /\ UNCHANGED <<nops, auxVars>>
    \/ Shutdown /\ UNCHANGED <<nops, auxVars>>
    \/ TermboxInit /\ UNCHANGED <<nops, auxVars>>

SpecFifo == InitInput /\ [][NextFifo]_vars

\* the number of bytes read that a reader is offering on input_comm
Offered(n) ==
    \E f \in [1..Len(readers) -> 0..MaxBytes] :
        /\ \A r \in 1..Len(readers) :
              f[r] = IF readers[r].pc = "send" THEN Len(readers[r].data) ELSE 0
        /\ n = Len(rdlog.bytes) - Len(rdlog.recv)
        /\ LET RECURSIVE Sum(_)
               Sum(k) == IF k = 0 THEN 0 ELSE f[k] + Sum(k - 1)
           IN  n = Sum(Len(readers))

\* C18: the pending bytes are the bytes received, in the order of the receipts,
\* without the bytes the returned events consumed; the bytes received are the
\* bytes read, in the order of the reads, but for the chunk a reader is still
\* offering; a step of a reader leaves the pending bytes as they are.
C18_FifoByCopy ==
    /\ inbuf = SubSeq(rdlog.recv, rdlog.eaten + 1, Len(rdlog.recv))
    /\ IsPrefix(rdlog.recv, rdlog.bytes)
    /\ Offered(Len(rdlog.bytes) - Len(rdlog.recv))

\* the same, as long as Init ran once only
C18_FirstSessionOnly == (nsessions = 1) => C18_FifoByCopy

----------------------------------------------------------------------------
(* The reader tasks over the sessions and the hand-back, checked under     *)
(* SpecInput                                                               *)

\* the goroutines of lines 216-223 that are in their loop: the loop has no exit
LiveReaders == 1..Len(readers)

ReadersAt(pc) == {r \in LiveReaders : readers[r].pc = pc}

\* C19: at most one reader task is live, and none once Shutdown returned.
C19_OneReaderTask ==
    /\ Cardinality(LiveReaders) <= 1
    /\ ~in_open => LiveReaders = {}

\* C20: a reader waits for a slice at line 221 exactly while PollEvent is at its
\* send of line 359, so that send completes, and PollEvent is never at its
\* select or returned with a reader left waiting for a slice; a chunk on offer
\* while PollEvent waits in its select can be received.
C20_HandBackNeverBlocks ==
    /\ poll.pc = "send" => /\ ReadersAt("recv") # {}
                           /\ ENABLED (\E r \in LiveReaders : PollSend(r))
    /\ poll.pc # "send" => ReadersAt("recv") = {}
    /\ (poll.pc = "select" /\ ReadersAt("send") # {})
          => ENABLED (\E r \in LiveReaders : PollRecv(r))

\* PollEvent returned a Resize event and a reader is still offering its chunk
C20_Witness ==
    /\ ReturnedResize(call)
    /\ \E r \in ReadersAt("send") : readers[r].data # <<>>
    /\ ReadersAt("recv") = {}

\* PollEvent is at its send with the readers of two sessions on the channel, one
\* at its receive and one offering a chunk
C20_WitnessSend ==
    /\ poll.pc = "send"
    /\ ReadersAt("recv") # {}
    /\ ReadersAt("send") # {}

====
